---- MODULE Spec2Model ----
(***************************************************************************)
(* Model of vdparikh/fpe: format-preserving encryption with an FF1-style   *)
(* Feistel network (subtle/ff1.go), its numeral utilities                  *)
(* (subtle/numeric.go, numeric.go), the format layer (format.go) and the   *)
(* Tokenize / Detokenize facade (fpe.go).                                  *)
(*                                                                         *)
(* Strings and byte strings are sequences of bytes (0..255), numeral       *)
(* sequences are sequences of uint16 values.  Go's                         *)
(* math/big integers are modelled by their big-endian byte strings         *)
(* without leading zeros (the value of big.Int.Bytes()), so no arithmetic  *)
(* of the model exceeds the 32-bit integers of the model checker.          *)
(***************************************************************************)
EXTENDS Integers, Sequences, FiniteSets, TLC

(***************************************************************************)
(* State.  The caller owns a key buffer and a tweak buffer; a primitive    *)
(* holds the two slices it was given (NewFF1 stores key and tweak as they  *)
(* are passed), so its methods read the bytes the buffers hold at the time *)
(* of the read.                                                            *)
(***************************************************************************)
VARIABLES
    heap,     \* buffer name -> bytes: the caller's "keyBuf" and "tweakBuf"
    ff1,      \* the primitive last built: [id, key, tweak], slices by buffer name
    newErr,   \* what the last NewFF1 returned: [called, keyLen, err]
    call,     \* the last call made on the primitive and what it returned
    procs,    \* goroutine -> the call it is making, step by step
    mem,      \* slot -> the halves A and B a call in progress works on
    fcall,    \* the call of a format-layer function: arguments and result
    ucall     \* the call of the round function or of a numeral utility

vars == <<heap, ff1, newErr, call, procs, mem, fcall, ucall>>

(***************************************************************************)
(* Generic helpers on sequences.                                           *)
(***************************************************************************)
\* the value e, with x evaluated before it: a loop of the code keeps its
\* accumulators evaluated from one iteration to the next
Strict(x, e) == IF x = x THEN e ELSE e

\* a function with domain 1..n as a sequence value
AsSeq(s) == SubSeq(s, 1, Len(s))

Reverse(s) == AsSeq([i \in 1..Len(s) |-> s[Len(s) + 1 - i]])

Zeros(k) == AsSeq([i \in 1..k |-> 0])

\* Go's s[:k] and s[k:] (k counted from 0)
Take(s, k) == SubSeq(s, 1, k)

Drop(s, k) == SubSeq(s, k + 1, Len(s))

(***************************************************************************)
(* math/big on byte strings.  A big integer is the sequence of its         *)
(* big-endian bytes with no leading zero; zero is the empty sequence.      *)
(***************************************************************************)
RECURSIVE StripLeadingZeros(_)
StripLeadingZeros(bs) ==
    IF Len(bs) = 0 THEN <<>>
    ELSE IF Head(bs) = 0 THEN StripLeadingZeros(Tail(bs))
    ELSE bs

\* big.Int.SetBytes: the value of a big-endian byte string
BigSetBytes(bs) == StripLeadingZeros(bs)

\* little-endian bytes of le * mul + carry
RECURSIVE MulAddLE(_, _, _)
MulAddLE(le, mul, carry) ==
    IF Len(le) = 0
    THEN IF carry = 0 THEN <<>>
         ELSE <<carry % 256>> \o MulAddLE(<<>>, mul, carry \div 256)
    ELSE LET t == Head(le) * mul + carry
         IN  <<t % 256>> \o MulAddLE(Tail(le), mul, t \div 256)

\* result.Mul(result, radixBig); result.Add(result, digit)
BigMulAdd(val, mul, add) ==
    StripLeadingZeros(Reverse(MulAddLE(Reverse(val), mul, add)))

\* long division of a big-endian byte string by a small divisor:
\* <<quotient bytes, remainder>>
RECURSIVE DivModBE(_, _, _, _)
DivModBE(bs, divisor, rem, acc) ==
    IF Len(bs) = 0 THEN <<acc, rem>>
    ELSE LET cur  == rem * 256 + Head(bs)
             acc1 == Append(acc, cur \div divisor)
         IN  Strict(acc1, DivModBE(Tail(bs), divisor, cur % divisor, acc1))

\* temp.DivMod(temp, radixBig, &remainder)
BigDivMod(val, divisor) ==
    LET r == DivModBE(val, divisor, 0, <<>>)
    IN  [quo |-> StripLeadingZeros(r[1]), rem |-> r[2]]

(***************************************************************************)
(* subtle/numeric.go                                                       *)
(***************************************************************************)
\* bitLength: the number of bits needed to represent radix-1
RECURSIVE BitLoop(_, _)
BitLoop(n, bits) == IF n > 0 THEN BitLoop(n \div 2, bits + 1) ELSE bits

bitLength(radix) == IF radix <= 1 THEN 1 ELSE BitLoop(radix - 1, 0)

\* numradixEncode: base-radix numerals to a big integer
RECURSIVE numradixEncodeFrom(_, _, _)
numradixEncodeFrom(numeric, radix, result) ==
    IF Len(numeric) = 0 THEN result
    ELSE LET next == BigMulAdd(result, radix, Head(numeric))
         IN  Strict(next, numradixEncodeFrom(Tail(numeric), radix, next))

numradixEncode(numeric, radix) == numradixEncodeFrom(numeric, radix, <<>>)

\* numradixDecode: the loop runs i = length-1 .. 0 and fills result[i]
RECURSIVE numradixDecodeLoop(_, _, _, _)
numradixDecodeLoop(temp, radix, i, result) ==
    IF i < 1 THEN result
    ELSE LET qr   == BigDivMod(temp, radix)
             next == [result EXCEPT ![i] = qr.rem % 65536]
         IN  Strict(next, numradixDecodeLoop(qr.quo, radix, i - 1, next))

\* variant: the loop fills result from the front
numradixDecodeLeastFirst(val, radix, length) ==
    Reverse(AsSeq(numradixDecodeLoop(val, radix, length, Zeros(length))))

numradixDecode(val, radix, length) ==
    AsSeq(numradixDecodeLoop(val, radix, length, Zeros(length)))

\* variant: val.Bytes() is returned as it is
LeftPadNone(bytes, minBytes) == bytes

\* numradixToBytes: val.Bytes() left-padded to minBytes
LeftPad(bytes, minBytes) ==
    IF Len(bytes) < minBytes THEN Zeros(minBytes - Len(bytes)) \o bytes ELSE bytes

numradixToBytes(numeric, radix) ==
    LeftPad(numradixEncode(numeric, radix),
            (Len(numeric) * bitLength(radix) + 7) \div 8)

(***************************************************************************)
(* crypto/aes.  The block cipher is a library the repository calls         *)
(* (aes.NewCipher, block.Encrypt); it is modelled as a keyed permutation   *)
(* of 16-byte blocks.  Byte 1 of the image mixes byte 1 of the block with  *)
(* a keyed sum over the other fifteen bytes, and every other byte of the   *)
(* image is the byte of the block shifted by a keyed function of that      *)
(* first byte: every byte of the image depends on every byte of the block  *)
(* and of the key, and distinct blocks have distinct images.               *)
(***************************************************************************)
BlockSize == 16

KeyByte(key, i) == key[((i - 1) % Len(key)) + 1]

\* the keyed sum over bytes 2..16 of the block
MixSum(key, block) ==
    LET W(j) == (block[j] + KeyByte(key, j) + j) * (2 * j + 1)
    IN  W(2) + W(3) + W(4) + W(5) + W(6) + W(7) + W(8) + W(9) + W(10)
          + W(11) + W(12) + W(13) + W(14) + W(15) + W(16)

\* block.Encrypt(dst, src) on one block
aesEncryptBlock(key, block) ==
    LET t  == MixSum(key, block)
        c1 == (block[1] + KeyByte(key, 1) + t + (t \div 256) * 29 + Len(key)) % 256
    IN  Strict(c1,
          AsSeq([i \in 1..BlockSize |->
                   IF i = 1 THEN c1
                   ELSE (block[i] + KeyByte(key, i)
                           + (c1 + i) * (c1 + KeyByte(key, i + BlockSize) + 1)) % 256]))

\* aes.NewCipher succeeds exactly for 16-, 24- and 32-byte keys
aesNewCipherOk(key) == Len(key) \in {16, 24, 32}

\* for i := 0; i < paddedLen; i += blockSize { block.Encrypt(R[i:], Q_padded[i:]) }
RECURSIVE aesECB(_, _)
aesECB(key, padded) ==
    IF Len(padded) = 0 THEN <<>>
    ELSE aesEncryptBlock(key, Take(padded, BlockSize))
             \o aesECB(key, Drop(padded, BlockSize))

\* ((qLen + blockSize - 1) / blockSize) * blockSize
PaddedLen(qLen) == ((qLen + BlockSize - 1) \div BlockSize) * BlockSize

(***************************************************************************)
(* subtle/ff1.go.  A primitive f is seen by its methods as the record      *)
(* [key |-> bytes, tweak |-> bytes] of what its two slices hold at the     *)
(* moment of the read.                                                     *)
(***************************************************************************)
maxInputLength == 100000

minDomainSize == 1000

rounds == 10

\* variant: a key between two sizes is zero-padded to the larger one
getAESKeyPadded(f) ==
    LET keyLen == Len(f.key)
    IN  IF keyLen <= 16 THEN f.key \o Zeros(16 - keyLen)
        ELSE IF keyLen <= 24 THEN f.key \o Zeros(24 - keyLen)
        ELSE IF keyLen <= 32 THEN f.key \o Zeros(32 - keyLen)
        ELSE Take(f.key, 32)

\* getAESKey: the key sized to 16, 24 or 32 bytes
getAESKey(f) ==
    LET keyLen == Len(f.key)
    IN  IF keyLen = 16 \/ keyLen = 24 \/ keyLen = 32 THEN f.key
        ELSE IF keyLen < 16 THEN f.key \o Zeros(16 - keyLen)
        ELSE IF keyLen < 24 THEN Take(f.key, 16)
        ELSE IF keyLen < 32 THEN Take(f.key, 24)
        ELSE Take(f.key, 32)

\* variant: the round bytes are salted with the instance that makes the call
RoundPrefixPerInstance(roundNum) ==
    AsSeq([j \in 1..4 |-> (roundNum + ff1.id) % 256])

\* the four leading bytes of Q: byte(roundNum), four times
RoundPrefix(roundNum) == AsSeq([j \in 1..4 |-> roundNum % 256])

\* Q zero-padded to a multiple of the block size
PadToBlock(Q) == Q \o Zeros(PaddedLen(Len(Q)) - Len(Q))

\* variant: the numradix bytes of B come before the tweak
buildQArrayBFirst(f, roundNum, B, radix) ==
    PadToBlock(RoundPrefix(roundNum) \o numradixToBytes(B, radix) \o f.tweak)

\* buildQArray: round bytes, tweak, numradix bytes of B, zero padding
buildQArray(f, roundNum, B, radix) ==
    PadToBlock(RoundPrefix(roundNum) \o f.tweak \o numradixToBytes(B, radix))

\* variant: without "if d < 8 && len(R) >= 8 { d = 8 }"
feistelDUnraised(u, radix, lenR) ==
    LET d0 == (u * bitLength(radix) + 7) \div 8
        d1 == IF d0 < 1 THEN 1 ELSE d0
    IN  IF d1 > lenR THEN lenR ELSE d1

\* d: the number of bytes of R that make up S
feistelD(u, radix, lenR) ==
    LET d0 == (u * bitLength(radix) + 7) \div 8
        d1 == IF d0 < 1 THEN 1 ELSE d0
        d2 == IF d1 > lenR THEN lenR ELSE d1
    IN  IF d2 < 8 /\ lenR >= 8 THEN 8 ELSE d2

\* c = y mod radix^u: c has the u least significant base-radix numerals of y
BigModRadixPow(y, radix, u) ==
    numradixEncode(numradixDecode(y, radix, u), radix)

\* steps 6.iii to 6.vii: S = R[:d], y, c = y mod radix^u, C; blocks is the
\* number of block.Encrypt calls that gave R
feistelOutput(R, u, radix) ==
    [C |-> numradixDecode(
              BigModRadixPow(BigSetBytes(Take(R, feistelD(u, radix, Len(R)))),
                             radix, u),
              radix, u),
     blocks |-> Len(R) \div BlockSize]

\* Q_padded: the bytes feistelFunction hands to block.Encrypt, none when it
\* returns before Step 6.ii
prfInput(f, B, roundNum, radix, aesKey) ==
    IF Len(B) = 0 \/ ~aesNewCipherOk(aesKey) THEN <<>>
    ELSE PadToBlock(buildQArray(f, roundNum, B, radix))

\* variant: without "if m == 0 { return make([]uint16, u) }"
feistelFunctionOnEmpty(f, B, roundNum, u, v, n, radix, aesKey) ==
    IF ~aesNewCipherOk(aesKey) THEN [C |-> Zeros(u), blocks |-> 0]
    ELSE feistelOutput(
             aesECB(aesKey, PadToBlock(buildQArray(f, roundNum, B, radix))),
             u, radix)

\* feistelFunction: the round function F.  C is what it returns, blocks the
\* number of block.Encrypt calls it made
feistelFunction(f, B, roundNum, u, v, n, radix, aesKey) ==
    IF Len(B) = 0 THEN [C |-> Zeros(u), blocks |-> 0]
    ELSE IF ~aesNewCipherOk(aesKey) THEN [C |-> Zeros(u), blocks |-> 0]
    ELSE feistelOutput(
             aesECB(aesKey, PadToBlock(buildQArray(f, roundNum, B, radix))),
             u, radix)

\* "Ensure C has exactly len(A) elements": pad or truncate
FitC(C, len) ==
    IF Len(C) # len
    THEN AsSeq([j \in 1..len |-> IF j <= Len(C) THEN C[j] ELSE 0])
    ELSE C

\* newB[j] = uint16((A[j] + C[j]) % radix)
AddMod(A, C, radix) ==
    AsSeq([j \in 1..Len(A) |-> ((A[j] + C[j]) % radix) % 65536])

\* oldA[j] = uint16((B[j] + radix - C[j % len(C)]) % radix)
SubMod(B, C, radix) ==
    AsSeq([j \in 1..Len(B) |->
             ((B[j] + radix - C[((j - 1) % Len(C)) + 1]) % radix) % 65536])

\* variant: the forward round subtracts C
EncryptSwapSubtract(A, B, radix, F) ==
    [A |-> B, B |-> SubMod(A, FitC(F.C, Len(A)), radix), blocks |-> F.blocks]

\* the halves after a forward round whose round function returned F
EncryptSwap(A, B, radix, F) ==
    [A |-> B, B |-> AddMod(A, FitC(F.C, Len(A)), radix), blocks |-> F.blocks]

\* the halves after a reverse round whose round function returned F
DecryptSwap(A, B, radix, F) ==
    [A |-> SubMod(B, FitC(F.C, Len(B)), radix), B |-> A, blocks |-> F.blocks]

\* variant: the round function is applied to the half it is added to
EncryptRoundOnA(f, A, B, i, n, radix, aesKey) ==
    EncryptSwap(A, B, radix,
                feistelFunction(f, A, i, Len(A), Len(B), n, radix, aesKey))

\* one forward round: A, B = B, (A + C) mod radix
EncryptRound(f, A, B, i, n, radix, aesKey) ==
    EncryptSwap(A, B, radix,
                feistelFunction(f, B, i, Len(A), Len(B), n, radix, aesKey))

\* variant: the reverse loop numbers its rounds rounds..1
DecryptRoundOffByOne(f, A, B, i, n, radix, aesKey) ==
    DecryptSwap(A, B, radix,
                feistelFunction(f, A, i + 1, Len(B), Len(A), n, radix, aesKey))

\* one reverse round: A, B = (B - C) mod radix, A
DecryptRound(f, A, B, i, n, radix, aesKey) ==
    DecryptSwap(A, B, radix,
                feistelFunction(f, A, i, Len(B), Len(A), n, radix, aesKey))

RECURSIVE EncryptRounds(_, _, _, _, _, _, _, _)
\* the rounds from i on, entered with the halves s of the round before
EncryptFrom(f, s, i, n, radix, aesKey, aes) ==
    Strict(s, EncryptRounds(f, s.A, s.B, i, n, radix, aesKey, aes + s.blocks))

\* for i := 0; i < rounds; i++; aes counts the block.Encrypt calls so far
EncryptRounds(f, A, B, i, n, radix, aesKey, aes) ==
    IF i >= rounds THEN [A |-> A, B |-> B, aes |-> aes]
    ELSE EncryptFrom(f, EncryptRound(f, A, B, i, n, radix, aesKey),
                     i + 1, n, radix, aesKey, aes)

RECURSIVE DecryptRounds(_, _, _, _, _, _, _, _)
\* the rounds from i down, entered with the halves s of the round before
DecryptFrom(f, s, i, n, radix, aesKey, aes) ==
    Strict(s, DecryptRounds(f, s.A, s.B, i, n, radix, aesKey, aes + s.blocks))

\* for i := rounds - 1; i >= 0; i--
DecryptRounds(f, A, B, i, n, radix, aesKey, aes) ==
    IF i < 0 THEN [A |-> A, B |-> B, aes |-> aes]
    ELSE DecryptFrom(f, DecryptRound(f, A, B, i, n, radix, aesKey),
                     i - 1, n, radix, aesKey, aes)

\* domainSize.Cmp(minDomainSize) < 0, with radix^n computed up to the
\* first partial product that reaches minDomainSize
RECURSIVE PowCapped(_, _, _)
PowCapped(radix, n, acc) ==
    IF n = 0 \/ acc >= minDomainSize \/ acc = 0 \/ radix = 1 THEN acc
    ELSE PowCapped(radix, n - 1, acc * radix)

\* variant: the domain is compared with a tenth of minDomainSize
DomainTooSmallTenth(radix, n) == PowCapped(radix, n, 1) < minDomainSize \div 10

\* variant: domainSize.Cmp(minDomainSize) <= 0
DomainTooSmallInclusive(radix, n) == PowCapped(radix, n, 1) <= minDomainSize

DomainTooSmall(radix, n) == PowCapped(radix, n, 1) < minDomainSize

\* variant: the domain guard returns the length guard's error
ValidateSameError(radix, n) ==
    IF n > maxInputLength THEN "input too long"
    ELSE IF DomainTooSmall(radix, n) THEN "input too long"
    ELSE ""

\* the guards at the head of Encrypt and Decrypt: "" when the call goes on
Validate(radix, n) ==
    IF n > maxInputLength THEN "input too long"
    ELSE IF DomainTooSmall(radix, n) THEN "domain size too small"
    ELSE ""

\* Step 7: output A || B
Output(s) == [out |-> s.A \o s.B, err |-> "", aes |-> s.aes]

\* what a call returns with error err: nil and the error
Failure(err, aes) == [out |-> <<>>, err |-> err, aes |-> aes]

\* the call past n == 0, with what the guards returned
EncryptGuarded(f, plaintext, radix, n, u, err) ==
    IF err # "" THEN Failure(err, 0)
    ELSE Output(EncryptRounds(f, Take(plaintext, u), Drop(plaintext, u),
                              0, n, radix, getAESKey(f), 0))

\* FF1.Encrypt(plaintext, alphabet) with radix = len(alphabet)
Encrypt(f, plaintext, radix) ==
    IF Len(plaintext) = 0 THEN [out |-> plaintext, err |-> "", aes |-> 0]
    ELSE EncryptGuarded(f, plaintext, radix, Len(plaintext), Len(plaintext) \div 2,
                        Validate(radix, Len(plaintext)))

\* the call past n == 0, with what the guards returned
DecryptGuarded(f, ciphertext, radix, n, u, err) ==
    IF err # "" THEN Failure(err, 0)
    ELSE Output(DecryptRounds(f, Take(ciphertext, u), Drop(ciphertext, u),
                              rounds - 1, n, radix, getAESKey(f), 0))

\* FF1.Decrypt(ciphertext, alphabet) with radix = len(alphabet)
Decrypt(f, ciphertext, radix) ==
    IF Len(ciphertext) = 0 THEN [out |-> ciphertext, err |-> "", aes |-> 0]
    ELSE DecryptGuarded(f, ciphertext, radix, Len(ciphertext), Len(ciphertext) \div 2,
                        Validate(radix, Len(ciphertext)))

(***************************************************************************)
(* format.go.  Strings are byte sequences.  Go's range loop over a string  *)
(* decodes UTF-8: it visits the first byte of every rune, a byte that      *)
(* starts no valid encoding being a rune (U+FFFD) of width 1.              *)
(***************************************************************************)
IsDigit(c) == c >= 48 /\ c <= 57

IsLetter(c) == (c >= 65 /\ c <= 90) \/ (c >= 97 /\ c <= 122)

IsData(c) == IsDigit(c) \/ IsLetter(c)

\* "0123456789"
DigitAlphabet == AsSeq([i \in 1..10 |-> 47 + i])

\* "ABCDEFGHIJKLMNOPQRSTUVWXYZabcdefghijklmnopqrstuvwxyz"
LetterAlphabet == AsSeq([i \in 1..52 |-> IF i <= 26 THEN 64 + i ELSE 70 + i])

\* a UTF-8 continuation byte
IsContinuation(b) == b >= 128 /\ b <= 191

\* the second byte a lead byte accepts: no overlong form, no surrogate,
\* nothing above U+10FFFF
SecondByteOk(lead, b) ==
    CASE lead = 224 -> b >= 160 /\ b <= 191
      [] lead = 237 -> b >= 128 /\ b <= 159
      [] lead = 240 -> b >= 144 /\ b <= 191
      [] lead = 244 -> b >= 128 /\ b <= 143
      [] OTHER -> IsContinuation(b)

\* bytes a lead byte announces: 0 when the byte starts no encoding
RuneLen(lead) ==
    IF lead < 128 THEN 1
    ELSE IF lead >= 194 /\ lead <= 223 THEN 2
    ELSE IF lead >= 224 /\ lead <= 239 THEN 3
    ELSE IF lead >= 240 /\ lead <= 244 THEN 4
    ELSE 0

\* bytes the range loop advances by at byte i of s
RuneWidth(s, i) ==
    IF RuneLen(s[i]) >= 2
         /\ i + RuneLen(s[i]) - 1 <= Len(s)
         /\ SecondByteOk(s[i], s[i + 1])
         /\ \A j \in (i + 2)..(i + RuneLen(s[i]) - 1) : IsContinuation(s[j])
    THEN RuneLen(s[i])
    ELSE 1

\* the byte indices the range loop visits from byte i on
RECURSIVE RuneStarts(_, _)
RuneStarts(s, i) ==
    IF i > Len(s) THEN {}
    ELSE {i} \cup RuneStarts(s, i + RuneWidth(s, i))

\* formatMask: false where the loop did not write, true at the visited
\* bytes that are not alphanumeric
FormatMask(s, starts) ==
    AsSeq([i \in 1..Len(s) |-> i \in starts /\ ~IsData(s[i])])

\* SeparateFormatAndData: (formatMask, dataChars); a byte inside a
\* multi-byte rune is at least 0x80, so the data characters are the
\* alphanumeric bytes
SeparateFormatAndData(s) ==
    [mask |-> FormatMask(s, RuneStarts(s, 1)),
     data |-> SelectSeq(s, IsData)]

\* dataIdx when the loop of ReconstructWithFormat reaches position i
DataIdx(formatMask, i) == Cardinality({j \in 1..(i - 1) : ~formatMask[j]})

\* variant: the result is allocated with len(data)
ReconstructDataLength(data, formatMask, original) ==
    AsSeq([i \in 1..Len(data) |->
             IF formatMask[i] THEN original[i]
             ELSE IF DataIdx(formatMask, i) < Len(data)
                  THEN data[DataIdx(formatMask, i) + 1]
                  ELSE 48])

\* variant: data is indexed by the position in the result
ReconstructByPosition(data, formatMask, original) ==
    AsSeq([i \in 1..Len(formatMask) |->
             IF formatMask[i] THEN original[i]
             ELSE IF i <= Len(data) THEN data[i] ELSE 48])

\* original[i] is read out of range: the call ends in a run-time panic
ReconstructPanics(formatMask, original) ==
    \E i \in 1..Len(formatMask) : formatMask[i] /\ i > Len(original)

\* ReconstructWithFormat, where it returns
ReconstructWithFormat(data, formatMask, original) ==
    AsSeq([i \in 1..Len(formatMask) |->
             IF formatMask[i] THEN original[i]
             ELSE IF DataIdx(formatMask, i) < Len(data)
                  THEN data[DataIdx(formatMask, i) + 1]
                  ELSE 48])

\* hasDigits and hasLetters when the loop of DetermineAlphabet ends
HasDigits(plaintext) == \E i \in 1..Len(plaintext) : IsDigit(plaintext[i])

HasLetters(plaintext) ==
    \E i \in 1..Len(plaintext) : ~IsDigit(plaintext[i]) /\ IsLetter(plaintext[i])

\* variant: the letters are appended first
BuildAlphabetLettersFirst(hasDigits, hasLetters) ==
    (IF hasLetters THEN LetterAlphabet ELSE <<>>)
       \o (IF hasDigits THEN DigitAlphabet ELSE <<>>)

\* the alphabet built from what the plaintext holds
BuildAlphabet(hasDigits, hasLetters) ==
    (IF hasDigits THEN DigitAlphabet ELSE <<>>)
       \o (IF hasLetters THEN LetterAlphabet ELSE <<>>)

\* variant: no default
NoDefault(alphabet) == alphabet

\* Default: numeric
DefaultNumeric(alphabet) ==
    IF Len(alphabet) = 0 THEN DigitAlphabet ELSE alphabet

\* DetermineAlphabet
DetermineAlphabet(plaintext) ==
    DefaultNumeric(BuildAlphabet(HasDigits(plaintext), HasLetters(plaintext)))

(***************************************************************************)
(* StringToNumeric / NumericToString (the exported numeral utilities of    *)
(* package fpe).                                                           *)
(***************************************************************************)
\* alphabetMap[char]: the 0-based index of the last occurrence of char
AlphabetIndex(alphabet, char) ==
    LET at == {i \in 1..Len(alphabet) : alphabet[i] = char}
    IN  IF at = {} THEN -1
        ELSE (CHOOSE i \in at : \A j \in at : j <= i) - 1

\* variant: the index counts from 1
StringToNumericOneBased(s, alphabet) ==
    AsSeq([i \in 1..Len(s) |->
             IF AlphabetIndex(alphabet, s[i]) >= 0
             THEN (AlphabetIndex(alphabet, s[i]) + 1) % 65536
             ELSE 0])

\* StringToNumeric, for an ASCII alphabet: the range loop over s writes at
\* the first byte of every rune, a rune of several bytes is not in the
\* alphabet, and the entries of its other bytes stay 0
StringToNumeric(s, alphabet) ==
    AsSeq([i \in 1..Len(s) |->
             IF AlphabetIndex(alphabet, s[i]) >= 0
             THEN AlphabetIndex(alphabet, s[i]) % 65536
             ELSE 0])

\* variant: every numeral is written as '0' + numeral
NumericToStringAsDigits(numeric, alphabet, length) ==
    AsSeq([i \in 1..length |-> IF i <= Len(numeric) THEN 48 + numeric[i] ELSE 0])

\* alphabet[0] or alphabet[numeric[i]] is read from an empty alphabet: the
\* call ends in a run-time panic
NumericToStringPanics(numeric, alphabet, length) ==
    Len(alphabet) = 0 /\ length > 0 /\ Len(numeric) > 0

\* NumericToString, where it returns
NumericToString(numeric, alphabet, length) ==
    AsSeq([i \in 1..length |->
             IF i <= Len(numeric)
             THEN IF numeric[i] < Len(alphabet)
                  THEN alphabet[numeric[i] + 1]
                  ELSE alphabet[1]
             ELSE 0])

(***************************************************************************)
(* fpe.go: the facade.  err carries the cause of the wrapped error.        *)
(***************************************************************************)
\* Step 5: convert back to a string and reconstruct with the format
Reconstructed(res, alphabet, sep, original) ==
    IF res.err # "" THEN Failure(res.err, res.aes)
    ELSE [out |-> ReconstructWithFormat(
                      NumericToString(res.out, alphabet, Len(sep.data)),
                      sep.mask, original),
          err |-> "", aes |-> res.aes]

\* Steps 2 to 5 of Tokenize on the separated plaintext
TokenizeWith(f, plaintext, sep, alphabet) ==
    IF Len(alphabet) = 0 THEN Failure("no valid alphabet found", 0)
    ELSE Reconstructed(Encrypt(f, StringToNumeric(sep.data, alphabet), Len(alphabet)),
                       alphabet, sep, plaintext)

TokenizeSeparated(f, plaintext, sep) ==
    TokenizeWith(f, plaintext, sep, DetermineAlphabet(sep.data))

\* FF1.Tokenize
Tokenize(f, plaintext) ==
    TokenizeSeparated(f, plaintext, SeparateFormatAndData(plaintext))

\* variant: the tokenized data is preferred to the original plaintext
DetokenizeAlphabetFromData(dataChars, originalPlaintext, alphabet) ==
    IF Len(alphabet) = 0 THEN DetermineAlphabet(dataChars) ELSE alphabet

\* variant: with neither alphabet nor original plaintext, the digits and
\* letters together
DetokenizeAlphabetAlphanumeric(dataChars, originalPlaintext, alphabet) ==
    IF Len(alphabet) = 0
    THEN IF Len(originalPlaintext) # 0
         THEN DetermineAlphabet(SeparateFormatAndData(originalPlaintext).data)
         ELSE BuildAlphabet(TRUE, TRUE)
    ELSE alphabet

\* the alphabet Detokenize works with
DetokenizeAlphabet(dataChars, originalPlaintext, alphabet) ==
    IF Len(alphabet) = 0
    THEN IF Len(originalPlaintext) # 0
         THEN DetermineAlphabet(SeparateFormatAndData(originalPlaintext).data)
         ELSE DetermineAlphabet(dataChars)
    ELSE alphabet

\* Steps 2 to 5 of Detokenize on the separated token
DetokenizeWith(f, tokenized, sep, alphabet) ==
    IF Len(alphabet) = 0 THEN Failure("no valid alphabet found", 0)
    ELSE Reconstructed(Decrypt(f, StringToNumeric(sep.data, alphabet), Len(alphabet)),
                       alphabet, sep, tokenized)

DetokenizeSeparated(f, tokenized, originalPlaintext, alphabet0, sep) ==
    DetokenizeWith(f, tokenized, sep,
                   DetokenizeAlphabet(sep.data, originalPlaintext, alphabet0))

\* FF1.Detokenize
Detokenize(f, tokenized, originalPlaintext, alphabet0) ==
    DetokenizeSeparated(f, tokenized, originalPlaintext, alphabet0,
                        SeparateFormatAndData(tokenized))

(***************************************************************************)
(* Bounds and the inputs the calls are made with.                          *)
(***************************************************************************)
\* longest numeral sequence handed to Encrypt / Decrypt (the over-long one apart)
MaxLen == 3

\* number of numeral patterns per radix and length
NumPatterns == 1

\* longest string handed to Tokenize / Detokenize
MaxStr == 4

\* number of primitives a caller builds from its buffers
MaxPrims == 2

\* key buffers of 15, 16, 17 and 32 bytes; the 17-byte one starts with the
\* bytes of the 16-byte one
KeyOf(len, seed) == AsSeq([i \in 1..len |-> (i * 37 + seed * 11) % 256])

Keys == {KeyOf(15, 1), KeyOf(16, 1), KeyOf(17, 1), KeyOf(32, 3)}

\* tweaks: empty, and two 13-byte tweaks that differ in their last byte only
TweakOf(len, last) == AsSeq([i \in 1..len |-> IF i = len THEN last ELSE 96 + i])

Tweaks == {<<>>, TweakOf(13, 65), TweakOf(13, 66)}

\* the radixes (alphabet lengths) Encrypt and Decrypt are called with
CoreRadixes == {0, 1, 10, 62}

\* numerals below the radix, by pattern
Pattern(radix, n, k) ==
    AsSeq([i \in 1..n |-> IF radix < 2 THEN 0 ELSE (k * k + 3 * k * i + i) % radix])

\* one numeral more than maxInputLength
LongInput == Zeros(maxInputLength + 1)

\* exactly maxInputLength numerals
LongestInput == Zeros(maxInputLength)

CoreInputs ==
    {<<r, Pattern(r, n, k)>> : r \in CoreRadixes, n \in 0..MaxLen, k \in 1..NumPatterns}
      \cup {<<1, LongInput>>, <<1, LongestInput>>}

\* strings by template: digits with hyphens, letters with dots, mixed with
\* an at sign, digits only, the two bytes of U+00E9 then digits, format
\* characters first
TemplateChar(k, i) ==
    CASE k = 1 -> IF i % 4 = 0 THEN 45 ELSE 48 + ((7 * i) % 10)
      [] k = 2 -> IF i % 3 = 0 THEN 46 ELSE IF i % 2 = 0 THEN 97 + i ELSE 65 + i
      [] k = 3 -> IF i = 2 THEN 64 ELSE IF i % 2 = 1 THEN 48 + i ELSE 100 + i
      [] k = 4 -> 48 + ((3 * i) % 10)
      [] k = 5 -> IF i = 1 THEN 195 ELSE IF i = 2 THEN 169 ELSE 48 + i
      [] OTHER -> IF i <= 2 THEN 45 ELSE 48 + i

Templates == 1..6

Template(k, n) == AsSeq([i \in 1..n |-> TemplateChar(k, i)])

\* the plaintexts of TestFF1_EdgeCases: "12", "123", "A", "AB", "A1", ""
EdgeCases == {<<49, 50>>, <<49, 50, 51>>, <<65>>, <<65, 66>>, <<65, 49>>, <<>>}

Strings == {Template(k, n) : k \in Templates, n \in 0..MaxStr} \cup EdgeCases

(***************************************************************************)
(* Initial state and the records of the state.                             *)
(***************************************************************************)
NoPrim == [id |-> 0, key |-> "nil", tweak |-> "nil"]

\* what the methods of primitive p read through its slices
View(p, h) == [key |-> h[p.key], tweak |-> h[p.tweak]]

NoView == [key |-> <<>>, tweak |-> <<>>]

NoPrev == [op |-> "none", in |-> <<>>, out |-> <<>>, f |-> NoView, radix |-> 0]

NoCall == [op |-> "none", prim |-> 0, f |-> NoView, in |-> <<>>, radix |-> 0,
           hint |-> <<>>, alph |-> <<>>, out |-> <<>>, err |-> "", aes |-> 0,
           prev |-> NoPrev]

\* the call c, as the call an inverse call was chained on
AsPrev(c) == [op |-> c.op, in |-> c.in, out |-> c.out, f |-> c.f, radix |-> c.radix]

\* the goroutines that call one primitive at the same time
Goroutines == {"g1", "g2"}

IdleProc == [pc |-> "idle", op |-> "none", in |-> <<>>, radix |-> 0, hint |-> <<>>,
             alph |-> <<>>, f0 |-> NoView, alphabet |-> <<>>, n |-> 0, r |-> 0,
             aesKey |-> <<>>, i |-> 0, overlapped |-> FALSE,
             out |-> <<>>, err |-> ""]

NoHalves == [A |-> <<>>, B |-> <<>>]

\* no earlier unit call
NoUnitPrev ==
    [fn |-> "none", B |-> <<>>, str |-> <<>>, numerals |-> <<>>, C |-> <<>>,
     prf |-> <<>>, d |-> 0, out |-> <<>>, err |-> ""]

\* no round function and no numeral utility called
NoUnitCall ==
    [fn |-> "none", returned |-> FALSE, f |-> NoView,
     B |-> <<>>, roundNum |-> 0, u |-> 0, v |-> 0, n |-> 0, radix |-> 0,
     str |-> <<>>, alphabet |-> <<>>, numerals |-> <<>>, length |-> 0, val |-> <<>>,
     prf |-> <<>>, Q |-> <<>>, lenR |-> 0, d |-> 0, C |-> <<>>, fitted |-> FALSE,
     out |-> <<>>, err |-> "", bits |-> 0, panicked |-> FALSE, prev |-> NoUnitPrev]

\* no format-layer function called
NoFormatCall ==
    [fn |-> "none", returned |-> FALSE, s |-> <<>>, data |-> <<>>, formatMask |-> <<>>,
     original |-> <<>>, outMask |-> <<>>, out |-> <<>>, panicked |-> FALSE]

\* the (key, tweak) pairs the caller's buffers start with: every key with
\* the empty tweak, and the 16-byte key with every tweak
KeyTweakPairs ==
    {<<k, <<>>>> : k \in Keys} \cup {<<KeyOf(16, 1), t>> : t \in Tweaks}

Init ==
    /\ \E kt \in KeyTweakPairs : heap = [keyBuf |-> kt[1], tweakBuf |-> kt[2]]
    /\ ff1 = NoPrim
    /\ newErr = [called |-> FALSE, keyLen |-> 0, err |-> ""]
    /\ call = NoCall
    /\ procs = [g \in Goroutines |-> IdleProc]
    /\ mem = [g \in Goroutines |-> NoHalves]
    /\ fcall = NoFormatCall
    /\ ucall = NoUnitCall

(***************************************************************************)
(* Operations.  A call is made with a fresh input, repeats the last call   *)
(* on the same input, or inverts the last call on its output.              *)
(***************************************************************************)
\* the last call was made by the current primitive, and the buffers hold
\* what they held then
Fresh ==
    /\ call.op # "none"
    /\ call.prim = ff1.id
    /\ call.f = View(ff1, heap)

\* NewFF1(key, tweak) on the caller's two buffers
NewFF1 ==
    /\ ff1.id < MaxPrims
    /\ ff1.id = 0 \/ (call.prev = NoPrev /\ Fresh)
    /\ newErr' = [called |-> TRUE, keyLen |-> Len(heap["keyBuf"]),
                   err |-> IF Len(heap["keyBuf"]) < 16
                           THEN "key must be at least 16 bytes" ELSE ""]
    /\ ff1' = IF Len(heap["keyBuf"]) < 16 THEN ff1
              ELSE [id |-> ff1.id + 1, key |-> "keyBuf", tweak |-> "tweakBuf"]
    /\ UNCHANGED <<heap, call, procs, mem, fcall, ucall>>

\* the caller clears its key buffer after it has used the primitive
CallerOverwriteKey ==
    /\ call.prev = NoPrev /\ Fresh
    /\ heap["keyBuf"] # Zeros(Len(heap["keyBuf"]))
    /\ heap' = [heap EXCEPT !["keyBuf"] = Zeros(Len(heap["keyBuf"]))]
    /\ UNCHANGED <<ff1, newErr, call, procs, mem, fcall, ucall>>

\* the (radix, numerals) pairs a call of operation op may be made with
CoreCallInputs(op, inverse) ==
    IF call.op = "none" THEN CoreInputs
    ELSE IF call.prev # NoPrev THEN {}
    ELSE (IF call.op = op THEN {<<call.radix, call.in>>} ELSE {})
           \cup (IF call.op = inverse /\ call.err = "" /\ Fresh
                 THEN {<<call.radix, call.out>>} ELSE {})

\* the previous call, when this one is made on its output
PrevOf(inverse, in) ==
    IF call.op = inverse /\ call.err = "" /\ call.out = in
    THEN AsPrev(call) ELSE NoPrev

\* the record of a call that returned r
Returned(op, f, in, radix, hint, alph, r, prev) ==
    [op |-> op, prim |-> ff1.id, f |-> f, in |-> in,
     radix |-> radix, hint |-> hint, alph |-> alph,
     out |-> r.out, err |-> r.err, aes |-> r.aes, prev |-> prev]

DoEncrypt(radix, X) ==
    /\ ff1.id # 0
    /\ call' = Returned("Encrypt", View(ff1, heap), X, radix, <<>>, <<>>,
                        Encrypt(View(ff1, heap), X, radix), PrevOf("Decrypt", X))
    /\ UNCHANGED <<heap, ff1, newErr, procs, mem, fcall, ucall>>

DoDecrypt(radix, Y) ==
    /\ ff1.id # 0
    /\ call' = Returned("Decrypt", View(ff1, heap), Y, radix, <<>>, <<>>,
                        Decrypt(View(ff1, heap), Y, radix), PrevOf("Encrypt", Y))
    /\ UNCHANGED <<heap, ff1, newErr, procs, mem, fcall, ucall>>

\* the plaintexts Tokenize may be called with
TokenizeInputs ==
    IF call.op = "none" THEN Strings
    ELSE IF call.op = "Tokenize" THEN {call.in}
    ELSE {}

DoTokenize(p) ==
    /\ ff1.id # 0
    /\ call' = Returned("Tokenize", View(ff1, heap), p, 0, <<>>, <<>>,
                        Tokenize(View(ff1, heap), p), NoPrev)
    /\ UNCHANGED <<heap, ff1, newErr, procs, mem, fcall, ucall>>

\* the original plaintexts a Detokenize not following a Tokenize is given:
\* none, "AB"
Hints == {<<>>, <<65, 66>>}

\* (tokenized, originalPlaintext, alphabet) triples Detokenize may be called with
DetokenizeInputs ==
    IF call.op = "none"
    THEN {<<t, h, a>> : t \in Strings, h \in Hints, a \in {<<>>, DigitAlphabet}}
    ELSE IF call.op = "Tokenize" /\ call.err = "" /\ Fresh
    THEN {<<call.out, h, <<>>>> : h \in {call.in, <<>>}}
    ELSE IF call.op = "Detokenize"
    THEN {<<call.in, call.hint, call.alph>>}
    ELSE {}

DoDetokenize(t, hint, alph) ==
    /\ ff1.id # 0
    /\ call' = Returned("Detokenize", View(ff1, heap), t, 0, hint, alph,
                        Detokenize(View(ff1, heap), t, hint, alph),
                        IF call.op = "Detokenize" THEN call.prev
                        ELSE PrevOf("Tokenize", t))
    /\ UNCHANGED <<heap, ff1, newErr, procs, mem, fcall, ucall>>

Next ==
    \/ NewFF1
    \/ CallerOverwriteKey
    \/ \E in \in CoreCallInputs("Encrypt", "Decrypt") : DoEncrypt(in[1], in[2])
    \/ \E in \in CoreCallInputs("Decrypt", "Encrypt") : DoDecrypt(in[1], in[2])
    \/ \E p \in TokenizeInputs : DoTokenize(p)
    \/ \E in \in DetokenizeInputs : DoDetokenize(in[1], in[2], in[3])

Spec == Init /\ [][Next]_vars

(***************************************************************************)
(* Concurrent calls on one primitive.  Each goroutine makes one call, in   *)
(* steps: what precedes the round loop, one step per round, what follows   *)
(* the loop.  A call reads the primitive's key and tweak through the       *)
(* slices the primitive holds and works on halves A and B it allocates     *)
(* itself.                                                                 *)
(***************************************************************************)
\* the calls the goroutines make: [op, in, radix, hint, alph]
ConcCall(op, in, radix) ==
    [op |-> op, in |-> in, radix |-> radix, hint |-> <<>>, alph |-> <<>>]

ConcCalls ==
    {ConcCall("Encrypt", Pattern(10, MaxLen, 1), 10),
     ConcCall("Decrypt", Pattern(62, MaxLen, 1), 62),
     ConcCall("Encrypt", Pattern(10, 2, 1), 10),
     ConcCall("Encrypt", <<minDomainSize - 1>>, minDomainSize),
     ConcCall("Decrypt", <<7>>, minDomainSize),
     ConcCall("Decrypt", <<7>>, minDomainSize - 1),
     ConcCall("Tokenize", Template(1, MaxStr), 0),
     ConcCall("Detokenize", Template(2, MaxStr), 0)}

IsFacade(op) == op \in {"Tokenize", "Detokenize"}

IsForward(op) == op \in {"Encrypt", "Tokenize"}

\* variant: the halves of every call live in one buffer of the primitive
SlotShared(g) == "g1"

\* where the halves A and B of the call of goroutine g live: each call
\* makes its own
Slot(g) == g

\* what the call returns once the cipher has returned numerals
Finish(op, in, alphabet, numerals) ==
    IF IsFacade(op)
    THEN LET sep == SeparateFormatAndData(in)
         IN  ReconstructWithFormat(NumericToString(numerals, alphabet, Len(sep.data)),
                                   sep.mask, in)
    ELSE numerals

\* the (key, tweak) pairs the shared primitive is built from: a key used as
\* it is, keys getAESKey truncates to 16, 24 and 32 bytes, a tweak that
\* fills the first block
ConcPairs ==
    {<<KeyOf(16, 1), <<>>>>, <<KeyOf(17, 1), <<>>>>, <<KeyOf(25, 1), <<>>>>,
     <<KeyOf(33, 1), <<>>>>, <<KeyOf(16, 1), TweakOf(13, 65)>>}

InitConc ==
    /\ \E kt \in ConcPairs :
          /\ heap = [keyBuf |-> kt[1], tweakBuf |-> kt[2]]
          /\ newErr = [called |-> TRUE, keyLen |-> Len(kt[1]), err |-> ""]
    /\ ff1 = [id |-> 1, key |-> "keyBuf", tweak |-> "tweakBuf"]
    /\ call = NoCall
    /\ procs = [g \in Goroutines |-> IdleProc]
    /\ mem = [g \in Goroutines |-> NoHalves]
    /\ fcall = NoFormatCall
    /\ ucall = NoUnitCall

\* goroutine g enters call c and runs it up to the round loop
Begin(g, c) ==
    /\ procs[g].pc = "idle"
    /\ LET f        == View(ff1, heap)
           data     == SeparateFormatAndData(c.in).data
           alphabet == IF c.op = "Tokenize" THEN DetermineAlphabet(data)
                       ELSE IF c.op = "Detokenize"
                       THEN DetokenizeAlphabet(data, c.hint, c.alph)
                       ELSE <<>>
           X        == IF IsFacade(c.op) THEN StringToNumeric(data, alphabet) ELSE c.in
           r        == IF IsFacade(c.op) THEN Len(alphabet) ELSE c.radix
           n        == Len(X)
           u        == n \div 2
           entered  == [IdleProc EXCEPT !.op = c.op, !.in = c.in, !.radix = c.radix,
                                        !.hint = c.hint, !.alph = c.alph, !.f0 = f,
                                        !.alphabet = alphabet, !.n = n, !.r = r]
           early    == (IsFacade(c.op) /\ Len(alphabet) = 0) \/ n = 0
                          \/ Validate(r, n) # ""
       IN  /\ procs' = [procs EXCEPT ![g] =
                IF IsFacade(c.op) /\ Len(alphabet) = 0
                THEN [entered EXCEPT !.pc = "done", !.err = "no valid alphabet found"]
                ELSE IF n = 0
                THEN [entered EXCEPT !.pc = "done",
                                     !.out = Finish(c.op, c.in, alphabet, X)]
                ELSE IF Validate(r, n) # ""
                THEN [entered EXCEPT !.pc = "done", !.err = Validate(r, n)]
                ELSE [entered EXCEPT !.pc = "loop", !.aesKey = getAESKey(f),
                                     !.i = IF IsForward(c.op) THEN 0 ELSE rounds - 1]]
           /\ mem' = IF early THEN mem
                     ELSE [mem EXCEPT ![Slot(g)] = [A |-> Take(X, u), B |-> Drop(X, u)]]
    /\ UNCHANGED <<heap, ff1, newErr, call, fcall, ucall>>

\* the round the call c is at, on the halves h
RoundOf(c, f, h) ==
    IF IsForward(c.op)
    THEN EncryptRound(f, h.A, h.B, c.i, c.n, c.r, c.aesKey)
    ELSE DecryptRound(f, h.A, h.B, c.i, c.n, c.r, c.aesKey)

\* A and B as the round leaves them
Halves(s) == [A |-> s.A, B |-> s.B]

\* one iteration of the round loop of the call of goroutine g
Round(g) ==
    /\ procs[g].pc = "loop"
    /\ procs[g].i \in 0..(rounds - 1)
    /\ mem' = [mem EXCEPT ![Slot(g)] =
                  Halves(RoundOf(procs[g], View(ff1, heap), mem[Slot(g)]))]
    /\ procs' = [procs EXCEPT
          ![g].i = IF IsForward(procs[g].op) THEN procs[g].i + 1
                   ELSE procs[g].i - 1,
          ![g].overlapped =
              procs[g].overlapped
                 \/ \E o \in Goroutines \ {g} : procs[o].pc = "loop"]
    /\ UNCHANGED <<heap, ff1, newErr, call, fcall, ucall>>

\* the loop of the call of goroutine g is over: the call returns
End(g) ==
    /\ procs[g].pc = "loop"
    /\ procs[g].i \notin 0..(rounds - 1)
    /\ LET c == procs[g]
           h == mem[Slot(g)]
       IN  procs' = [procs EXCEPT
              ![g].pc = "done",
              ![g].out = Finish(c.op, c.in, c.alphabet, h.A \o h.B)]
    /\ UNCHANGED <<heap, ff1, newErr, call, mem, fcall, ucall>>

NextConc ==
    \E g \in Goroutines :
       \/ \E c \in ConcCalls : Begin(g, c)
       \/ Round(g)
       \/ End(g)

SpecConc == InitConc /\ [][NextConc]_vars

(***************************************************************************)
(* The format layer on its own: one call of SeparateFormatAndData,         *)
(* DetermineAlphabet or ReconstructWithFormat on arguments of any lengths. *)
(***************************************************************************)
\* longest string handed to SeparateFormatAndData and DetermineAlphabet
MaxBytes == 3

\* longest data handed to ReconstructWithFormat
MaxData == 2

\* longest mask and longest original handed to ReconstructWithFormat
MaxMask == 3

\* the bytes of the strings: the ends of 0-9, A-Z and a-z, their neighbours
\* / : @ [ ` {, the hyphen, and the non-ASCII bytes 0xA9, 0xC3, 0xE2
Bytes == {45, 47, 48, 57, 58, 64, 65, 90, 91, 96, 97, 122, 123, 169, 195, 226}

SeqsUpTo(S, n) == UNION {[1..k -> S] : k \in 0..n}

FormatCalls ==
    {[NoFormatCall EXCEPT !.fn = fn, !.s = AsSeq(s)] :
        fn \in {"SeparateFormatAndData", "DetermineAlphabet"},
        s \in SeqsUpTo(Bytes, MaxBytes)}
      \cup
    {[NoFormatCall EXCEPT !.fn = "ReconstructWithFormat", !.data = AsSeq(d),
                         !.formatMask = AsSeq(m), !.original = AsSeq(o)] :
        d \in SeqsUpTo({49, 65}, MaxData),
        m \in SeqsUpTo(BOOLEAN, MaxMask),
        o \in SeqsUpTo({45, 46}, MaxMask)}

InitFormat ==
    /\ heap = [keyBuf |-> <<>>, tweakBuf |-> <<>>]
    /\ ff1 = NoPrim
    /\ newErr = [called |-> FALSE, keyLen |-> 0, err |-> ""]
    /\ call = NoCall
    /\ procs = [g \in Goroutines |-> IdleProc]
    /\ mem = [g \in Goroutines |-> NoHalves]
    /\ fcall \in FormatCalls
    /\ ucall = NoUnitCall

\* the call returned mask and data
Separated(c, sep) ==
    [c EXCEPT !.returned = TRUE, !.outMask = sep.mask, !.out = sep.data]

DoSeparate ==
    /\ fcall.fn = "SeparateFormatAndData" /\ ~fcall.returned
    /\ fcall' = Separated(fcall, SeparateFormatAndData(fcall.s))
    /\ UNCHANGED <<heap, ff1, newErr, call, procs, mem, ucall>>

DoDetermine ==
    /\ fcall.fn = "DetermineAlphabet" /\ ~fcall.returned
    /\ fcall' = [fcall EXCEPT !.returned = TRUE, !.out = DetermineAlphabet(fcall.s)]
    /\ UNCHANGED <<heap, ff1, newErr, call, procs, mem, ucall>>

DoReconstruct ==
    /\ fcall.fn = "ReconstructWithFormat" /\ ~fcall.returned /\ ~fcall.panicked
    /\ fcall' =
          IF ReconstructPanics(fcall.formatMask, fcall.original)
          THEN [fcall EXCEPT !.panicked = TRUE]
          ELSE [fcall EXCEPT !.returned = TRUE,
                             !.out = ReconstructWithFormat(
                                         fcall.data, fcall.formatMask, fcall.original)]
    /\ UNCHANGED <<heap, ff1, newErr, call, procs, mem, ucall>>

NextFormat ==
    \/ DoSeparate
    \/ DoDetermine
    \/ DoReconstruct

SpecFormat == InitFormat /\ [][NextFormat]_vars

(***************************************************************************)
(* The round function and the numeral utilities on their own: one call on  *)
(* arguments drawn from bounded sets, and a second call that follows it.   *)
(***************************************************************************)
\* longest B handed to the round function
MaxB == 2

\* longest output asked of the round function, the long one apart
MaxM == 2

\* an output long enough for d to exceed 8 (radix 10) and 16 (radix 62)
LongM == 22

UnitRadixes == {2, 10, 62}

\* numerals below the radix: the smallest two and the largest
UnitNumerals(radix) == {0, 1, radix - 1}

UnitPrims == {[key |-> KeyOf(16, 1), tweak |-> t] : t \in Tweaks}

\* a radix and a B of numerals below it
RoundInputs ==
    UNION {{<<radix, AsSeq(B)>> : B \in [1..k -> UnitNumerals(radix)]} :
              radix \in UnitRadixes, k \in 0..MaxB}

\* the calls feistelFunction(B, roundNum, u, v, n, radix, aesKey): v is the
\* length of B and n is u + v, as Encrypt and Decrypt pass them
FeistelCalls ==
    {[NoUnitCall EXCEPT !.fn = "feistelFunction", !.f = f, !.B = r[2],
                        !.roundNum = i, !.u = u, !.v = Len(r[2]),
                        !.n = u + Len(r[2]), !.radix = r[1]] :
        f \in UnitPrims,
        r \in RoundInputs,
        i \in {0, rounds - 1},
        u \in (0..MaxM) \cup {LongM}}

\* the calls buildQArray(roundNum, B, radix)
QCalls ==
    {[NoUnitCall EXCEPT !.fn = "buildQArray", !.f = f, !.B = r[2],
                        !.roundNum = i, !.radix = r[1]] :
        f \in UnitPrims,
        r \in RoundInputs,
        i \in {0, rounds - 1}}

\* a radix and a length n with radix^n >= minDomainSize; n = 1 leaves the
\* left half empty
EncryptShapes == {<<10, 3>>, <<10, 4>>, <<1000, 1>>, <<1000, 2>>}

\* a radix and an X of its smallest and largest numerals
EncryptInputs ==
    UNION {{<<r[1], AsSeq(X)>> : X \in [1..r[2] -> {0, r[1] - 1}]} :
              r \in EncryptShapes}

\* the calls Encrypt(plaintext, alphabet) with radix = len(alphabet)
EncryptCalls ==
    {[NoUnitCall EXCEPT !.fn = "Encrypt", !.f = f, !.numerals = r[2],
                        !.radix = r[1]] :
        f \in UnitPrims, r \in EncryptInputs}

\* longest string and longest numeral sequence handed to the utilities
MaxUnitLen == 2

\* the alphabets: none, digits, letters, "ab"
UnitAlphabets == {<<>>, DigitAlphabet, LetterAlphabet, <<97, 98>>}

\* the calls StringToNumeric(s, alphabet), s over "0", "9", "a", "-" and 0xC3
StringCalls ==
    {[NoUnitCall EXCEPT !.fn = "StringToNumeric", !.str = AsSeq(str),
                        !.alphabet = a] :
        str \in SeqsUpTo({45, 48, 57, 97, 195}, MaxUnitLen), a \in UnitAlphabets}

\* the calls NumericToString(numeric, alphabet, length)
NumericCalls ==
    {[NoUnitCall EXCEPT !.fn = "NumericToString", !.numerals = AsSeq(x),
                        !.alphabet = a, !.length = len] :
        x \in SeqsUpTo({0, 1, 9, 10, 52}, MaxUnitLen), a \in UnitAlphabets,
        len \in 0..(MaxUnitLen + 1)}

\* the numeral sequences X over [0, radix) handed to numradixEncode
EncodeInputs ==
    UNION {{<<radix, AsSeq(X)>> : X \in [1..k -> UnitNumerals(radix)]} :
              radix \in UnitRadixes, k \in 0..(MaxUnitLen + 1)}

\* the calls numradixEncode(numeric, radix)
EncodeCalls ==
    {[NoUnitCall EXCEPT !.fn = "numradixEncode", !.numerals = r[2],
                        !.radix = r[1]] : r \in EncodeInputs}

\* the big integers handed to numradixDecode: 0, 1, 9, 255, 256, 999
BigValues == {<<>>, <<1>>, <<9>>, <<255>>, <<1, 0>>, <<3, 231>>}

\* the calls numradixDecode(val, radix, length)
DecodeCalls ==
    {[NoUnitCall EXCEPT !.fn = "numradixDecode", !.val = v, !.radix = radix,
                        !.length = len] :
        v \in BigValues, radix \in UnitRadixes, len \in 0..(MaxUnitLen + 1)}

\* the largest radix handed to bitLength, after the radixes around a power
\* of two
MaxBitRadix == 70

\* the calls bitLength(radix)
BitCalls ==
    {[NoUnitCall EXCEPT !.fn = "bitLength", !.radix = radix] :
        radix \in (-1..MaxBitRadix) \cup {255, 256, 257, 65535, 65536}}

UnitCalls ==
    FeistelCalls \cup QCalls \cup StringCalls \cup NumericCalls
       \cup EncodeCalls \cup DecodeCalls \cup BitCalls \cup EncryptCalls

InitUnit ==
    /\ heap = [keyBuf |-> <<>>, tweakBuf |-> <<>>]
    /\ ff1 = NoPrim
    /\ newErr = [called |-> FALSE, keyLen |-> 0, err |-> ""]
    /\ call = NoCall
    /\ procs = [g \in Goroutines |-> IdleProc]
    /\ mem = [g \in Goroutines |-> NoHalves]
    /\ fcall = NoFormatCall
    /\ ucall \in UnitCalls

\* what a call leaves for the call that follows it
AsUnitPrev(c) ==
    [fn |-> c.fn, B |-> c.B, str |-> c.str, numerals |-> c.numerals, C |-> c.C,
     prf |-> c.prf, d |-> c.d, out |-> c.out, err |-> c.err]

\* the call c of feistelFunction returned F, having encrypted prf
FeistelReturned(c, prf, F) ==
    [c EXCEPT !.returned = TRUE, !.prf = prf, !.lenR = Len(prf),
              !.d = IF Len(prf) = 0 THEN 0 ELSE feistelD(c.u, c.radix, Len(prf)),
              !.C = F.C, !.fitted = (FitC(F.C, c.u) # F.C)]

DoFeistel ==
    /\ ucall.fn = "feistelFunction" /\ ~ucall.returned
    /\ ucall' = FeistelReturned(
                    ucall,
                    prfInput(ucall.f, ucall.B, ucall.roundNum, ucall.radix,
                             getAESKey(ucall.f)),
                    feistelFunction(ucall.f, ucall.B, ucall.roundNum, ucall.u, ucall.v,
                                    ucall.n, ucall.radix, getAESKey(ucall.f)))
    /\ UNCHANGED <<heap, ff1, newErr, call, procs, mem, fcall>>

\* feistelFunction is called again with another B of the same radix, and
\* every other argument as before
DoFeistelOther ==
    /\ ucall.fn = "feistelFunction" /\ ucall.returned /\ ucall.prev.fn = "none"
    /\ \E r \in RoundInputs :
          /\ r[1] = ucall.radix /\ r[2] # ucall.B
          /\ ucall' = FeistelReturned(
                          [NoUnitCall EXCEPT
                              !.fn = "feistelFunction", !.f = ucall.f, !.B = r[2],
                              !.roundNum = ucall.roundNum, !.u = ucall.u,
                              !.v = Len(r[2]), !.n = ucall.u + Len(r[2]),
                              !.radix = ucall.radix, !.prev = AsUnitPrev(ucall)],
                          prfInput(ucall.f, r[2], ucall.roundNum, ucall.radix,
                                   getAESKey(ucall.f)),
                          feistelFunction(ucall.f, r[2], ucall.roundNum, ucall.u,
                                          Len(r[2]), ucall.u + Len(r[2]),
                                          ucall.radix, getAESKey(ucall.f)))
    /\ UNCHANGED <<heap, ff1, newErr, call, procs, mem, fcall>>

\* the call c of Encrypt returned r
EncryptReturned(c, r) == [c EXCEPT !.returned = TRUE, !.out = r.out, !.err = r.err]

DoEncryptUnit ==
    /\ ucall.fn = "Encrypt" /\ ~ucall.returned
    /\ ucall' = EncryptReturned(ucall, Encrypt(ucall.f, ucall.numerals, ucall.radix))
    /\ UNCHANGED <<heap, ff1, newErr, call, procs, mem, fcall>>

\* Encrypt is called again on another plaintext of the same length
DoEncryptOther ==
    /\ ucall.fn = "Encrypt" /\ ucall.returned /\ ucall.prev.fn = "none"
    /\ \E r \in EncryptInputs :
          /\ r[1] = ucall.radix /\ Len(r[2]) = Len(ucall.numerals)
          /\ r[2] # ucall.numerals
          /\ ucall' = EncryptReturned(
                          [NoUnitCall EXCEPT
                              !.fn = "Encrypt", !.f = ucall.f, !.numerals = r[2],
                              !.radix = ucall.radix, !.prev = AsUnitPrev(ucall)],
                          Encrypt(ucall.f, r[2], ucall.radix))
    /\ UNCHANGED <<heap, ff1, newErr, call, procs, mem, fcall>>

DoBuildQ ==
    /\ ucall.fn = "buildQArray" /\ ~ucall.returned
    /\ ucall' = [ucall EXCEPT !.returned = TRUE,
                              !.Q = buildQArray(ucall.f, ucall.roundNum, ucall.B,
                                                ucall.radix)]
    /\ UNCHANGED <<heap, ff1, newErr, call, procs, mem, fcall>>

DoStringToNumeric ==
    /\ ucall.fn = "StringToNumeric" /\ ~ucall.returned
    /\ ucall' = [ucall EXCEPT !.returned = TRUE,
                              !.out = StringToNumeric(ucall.str, ucall.alphabet)]
    /\ UNCHANGED <<heap, ff1, newErr, call, procs, mem, fcall>>

\* the call c of NumericToString returns or panics
NumericToStringDone(c) ==
    IF NumericToStringPanics(c.numerals, c.alphabet, c.length)
    THEN [c EXCEPT !.panicked = TRUE]
    ELSE [c EXCEPT !.returned = TRUE,
                   !.out = NumericToString(c.numerals, c.alphabet, c.length)]

DoNumericToString ==
    /\ ucall.fn = "NumericToString" /\ ~ucall.returned /\ ~ucall.panicked
    /\ ucall' = NumericToStringDone(ucall)
    /\ UNCHANGED <<heap, ff1, newErr, call, procs, mem, fcall>>

\* NumericToString(StringToNumeric(s, alphabet), alphabet, len(s))
DoNumericToStringBack ==
    /\ ucall.fn = "StringToNumeric" /\ ucall.returned
    /\ ucall' = NumericToStringDone(
                    [NoUnitCall EXCEPT !.fn = "NumericToString",
                                       !.numerals = ucall.out,
                                       !.alphabet = ucall.alphabet,
                                       !.length = Len(ucall.str),
                                       !.prev = AsUnitPrev(ucall)])
    /\ UNCHANGED <<heap, ff1, newErr, call, procs, mem, fcall>>

DoNumradixEncode ==
    /\ ucall.fn = "numradixEncode" /\ ~ucall.returned
    /\ ucall' = [ucall EXCEPT !.returned = TRUE,
                              !.val = numradixEncode(ucall.numerals, ucall.radix)]
    /\ UNCHANGED <<heap, ff1, newErr, call, procs, mem, fcall>>

DoNumradixDecode ==
    /\ ucall.fn = "numradixDecode" /\ ~ucall.returned
    /\ ucall' = [ucall EXCEPT !.returned = TRUE,
                              !.out = numradixDecode(ucall.val, ucall.radix,
                                                     ucall.length)]
    /\ UNCHANGED <<heap, ff1, newErr, call, procs, mem, fcall>>

\* numradixDecode(numradixEncode(X, radix), radix, len(X))
DoNumradixDecodeBack ==
    /\ ucall.fn = "numradixEncode" /\ ucall.returned
    /\ ucall' = [NoUnitCall EXCEPT
                    !.fn = "numradixDecode", !.returned = TRUE,
                    !.val = ucall.val, !.radix = ucall.radix,
                    !.length = Len(ucall.numerals),
                    !.out = numradixDecode(ucall.val, ucall.radix,
                                           Len(ucall.numerals)),
                    !.prev = AsUnitPrev(ucall)]
    /\ UNCHANGED <<heap, ff1, newErr, call, procs, mem, fcall>>

DoBitLength ==
    /\ ucall.fn = "bitLength" /\ ~ucall.returned
    /\ ucall' = [ucall EXCEPT !.returned = TRUE, !.bits = bitLength(ucall.radix)]
    /\ UNCHANGED <<heap, ff1, newErr, call, procs, mem, fcall>>

NextUnit ==
    \/ DoNumradixEncode
    \/ DoNumradixDecode
    \/ DoNumradixDecodeBack
    \/ DoBitLength
    \/ DoEncryptUnit
    \/ DoEncryptOther
    \/ DoFeistel
    \/ DoFeistelOther
    \/ DoBuildQ
    \/ DoStringToNumeric
    \/ DoNumericToString
    \/ DoNumericToStringBack

SpecUnit == InitUnit /\ [][NextUnit]_vars

(***************************************************************************)
(* Properties.                                                             *)
(***************************************************************************)
Range(seq) == {seq[i] : i \in 1..Len(seq)}

HasData(str) == \E i \in 1..Len(str) : IsData(str[i])

HasFormat(str) == \E i \in 1..Len(str) : ~IsData(str[i])

IsASCII(str) == \A i \in 1..Len(str) : str[i] < 128

\* Detokenize called on what Tokenize returned for call.prev.in, with that
\* plaintext as the hint, on a primitive holding the same key and tweak
RoundTripCase ==
    /\ call.op = "Detokenize"
    /\ call.prev.op = "Tokenize"
    /\ call.hint = call.prev.in
    /\ call.alph = <<>>
    /\ call.f = call.prev.f

\* C1: for every key NewFF1 accepts, every tweak and every ASCII plaintext p
\* on which Tokenize succeeds, Detokenize(Tokenize(p), p) returns p, no error.
C1_RoundTrip ==
    (RoundTripCase /\ IsASCII(call.prev.in))
       => (call.err = "" /\ call.out = call.prev.in)

C1_Witness ==
    /\ RoundTripCase
    /\ HasData(call.prev.in) /\ HasFormat(call.prev.in)
    /\ call.in # call.prev.in
    /\ call.out = call.prev.in

\* a call of op made on the output of a successful call of inverse, on a
\* primitive holding the same key and tweak
InverseCase(op, inverse) ==
    /\ call.op = op
    /\ call.prev.op = inverse
    /\ call.f = call.prev.f

InRange(numerals, radix) == \A i \in 1..Len(numerals) : numerals[i] \in 0..(radix - 1)

\* C2: where radix^n >= 1000, Encrypt maps the length-n numeral sequences
\* over [0, radix) to themselves and Decrypt is its exact inverse:
\* Decrypt(Encrypt(X)) = X and Encrypt(Decrypt(Y)) = Y.
C2_Inverse ==
    /\ (call.op \in {"Encrypt", "Decrypt"} /\ call.err = ""
            /\ InRange(call.in, call.radix))
          => (Len(call.out) = Len(call.in) /\ InRange(call.out, call.radix))
    /\ (InverseCase("Decrypt", "Encrypt") \/ InverseCase("Encrypt", "Decrypt"))
          => (call.err = "" /\ call.out = call.prev.in)

C2_Witness ==
    /\ InverseCase("Decrypt", "Encrypt")
    /\ Len(call.in) >= 3
    /\ call.in # call.prev.in
    /\ call.out = call.prev.in

\* C3: a successful Tokenize of an ASCII plaintext returns a string as long
\* as the plaintext that holds, at every non-alphanumeric position, the byte
\* the plaintext holds there; Detokenize does the same with respect to the
\* tokenized string.
C3_FormatPreserved ==
    (call.op \in {"Tokenize", "Detokenize"} /\ call.err = "" /\ IsASCII(call.in))
       => /\ Len(call.out) = Len(call.in)
          /\ \A i \in 1..Len(call.in) :
                ~IsData(call.in[i]) => call.out[i] = call.in[i]

C3_Witness ==
    /\ call.op = "Tokenize" /\ call.err = ""
    /\ HasData(call.in) /\ HasFormat(call.in)
    /\ call.out # call.in

\* C4: every alphanumeric position of an ASCII plaintext holds, in what
\* Tokenize returns, a character of the alphabet DetermineAlphabet picks for
\* the plaintext, so the result is alphanumeric at exactly the same positions.
C4_SameAlphabet ==
    (call.op = "Tokenize" /\ call.err = "" /\ IsASCII(call.in))
       => \A i \in 1..Len(call.in) :
             /\ IsData(call.in[i]) =>
                  call.out[i] \in Range(DetermineAlphabet(
                                           SeparateFormatAndData(call.in).data))
             /\ IsData(call.out[i]) <=> IsData(call.in[i])

C4_Witness ==
    /\ call.op = "Tokenize" /\ call.err = ""
    /\ \E i \in 1..Len(call.in) : IsLetter(call.in[i]) /\ call.out[i] # call.in[i]
    /\ ~ \E i \in 1..Len(call.in) : IsDigit(call.in[i])

RECURSIVE RadixPow(_, _)
RadixPow(radix, n) ==
    IF n = 0 THEN 1
    ELSE IF radix <= 1 THEN radix
    ELSE radix * RadixPow(radix, n - 1)

DomainError == "domain size too small"

CoreCall == call.op \in {"Encrypt", "Decrypt"} /\ Len(call.in) > 0

\* the numerals and radix a Tokenize or Detokenize call hands to the cipher
FacadeDomain ==
    LET data == SeparateFormatAndData(call.in).data
        alphabet == IF call.op = "Tokenize" THEN DetermineAlphabet(data)
                    ELSE DetokenizeAlphabet(data, call.hint, call.alph)
    IN  [n |-> Len(data), radix |-> Len(alphabet)]

FacadeSurfaces ==
    call.op \in {"Tokenize", "Detokenize"}
       => /\ call.err = DomainError => call.out = <<>>
          /\ call.err = DomainError
                <=> (/\ FacadeDomain.n > 0
                     /\ FacadeDomain.n <= maxInputLength
                     /\ RadixPow(FacadeDomain.radix, FacadeDomain.n) < 1000)

C7_KeyLengthChecked ==
    (newErr.called /\ newErr.keyLen \notin {16, 24, 32})
       => (newErr.err # "" /\ ff1 = NoPrim)

\* C8: with the key fixed, a plaintext Tokenize accepts gets different
\* ciphertexts from primitives built with two different tweaks.
C8_TweakSeparates ==
    (call.op = "Tokenize" /\ call.err = "" /\ HasData(call.in))
       => \A t \in Tweaks \ {call.f.tweak} :
             Tokenize([key |-> call.f.key, tweak |-> t], call.in).out # call.out

\* C10: NewFF1 keeps its own copy of the key: what the caller does to its
\* key buffer after construction does not change what a call returns.
C10_KeyCopied ==
    [][(/\ call.op # "none" /\ call'.op = call.op
        /\ call'.prim = call.prim
        /\ call'.in = call.in /\ call'.radix = call.radix
        /\ call'.hint = call.hint /\ call'.alph = call.alph)
          => (call'.out = call.out /\ call'.err = call.err)]_vars

\* what the call of a goroutine returns when it is the only call running
OutErr(res) == [out |-> res.out, err |-> res.err]

Alone(c) ==
    OutErr(CASE c.op = "Encrypt" -> Encrypt(c.f0, c.in, c.radix)
             [] c.op = "Decrypt" -> Decrypt(c.f0, c.in, c.radix)
             [] c.op = "Tokenize" -> Tokenize(c.f0, c.in)
             [] OTHER -> Detokenize(c.f0, c.in, c.hint, c.alph))

\* the halves a call starts its round loop with
FirstHalves(c) ==
    LET X == IF IsFacade(c.op)
             THEN StringToNumeric(SeparateFormatAndData(c.in).data, c.alphabet)
             ELSE c.in
    IN  [A |-> Take(X, Len(X) \div 2), B |-> Drop(X, Len(X) \div 2)]

\* C9: no call writes the primitive's key or tweak and calls share no other
\* mutable state: under any interleaving of concurrent calls on one
\* primitive each call returns the result it returns when run alone.
C9_Interleaving ==
    \A g \in Goroutines :
       /\ procs[g].pc # "idle" => View(ff1, heap) = procs[g].f0
       /\ (procs[g].pc = "loop"
              /\ procs[g].i = (IF IsForward(procs[g].op) THEN 0 ELSE rounds - 1))
             => mem[Slot(g)] = FirstHalves(procs[g])
       /\ procs[g].pc = "done" =>
             OutErr(procs[g]) = Alone(procs[g])

C9_Witness ==
    /\ \A g \in Goroutines :
          /\ procs[g].pc = "done" /\ procs[g].overlapped
          /\ procs[g].err = "" /\ procs[g].out # procs[g].in
    /\ procs["g1"].op = "Tokenize" /\ procs["g2"].op = "Decrypt"

(***************************************************************************)
(* Input guards of Encrypt and Decrypt                                     *)
(***************************************************************************)
LengthError == "input too long"

C12_NoDataUnchanged ==
    /\ (call.op = "Tokenize" /\ ~HasData(call.in))
          => (call.err = "" /\ call.out = call.in)
    /\ (call.op \in {"Encrypt", "Decrypt"} /\ Len(call.in) = 0)
          => (call.err = "" /\ call.out = call.in)

AlphabetError == "no valid alphabet found"

\* C13, as stated: Tokenize and Detokenize return the alphabet-empty error
\* when the input has no data characters and no alphabet override is given.
C13_AsStated ==
    (call.op \in {"Tokenize", "Detokenize"} /\ ~HasData(call.in)
         /\ Len(call.alph) = 0)
       => call.err = AlphabetError

\* C13, amended: Tokenize and Detokenize never return the alphabet-empty
\* error; on an input without data characters and without alphabet override
\* they return no error and a string as long as the input, the input itself
\* when it is ASCII.
C13_NoAlphabetError ==
    call.op \in {"Tokenize", "Detokenize"} =>
        /\ call.err # AlphabetError
        /\ (~HasData(call.in) /\ Len(call.alph) = 0) =>
              /\ call.err = ""
              /\ Len(call.out) = Len(call.in)
              /\ IsASCII(call.in) => call.out = call.in

\* Detokenize returned a string of format characters unchanged
C13_Witness ==
    /\ call.op = "Detokenize"
    /\ Len(call.in) > 0 /\ ~HasData(call.in) /\ IsASCII(call.in)
    /\ Len(call.alph) = 0 /\ Len(call.hint) = 0
    /\ call.err = "" /\ call.out = call.in

DataCount(str) == Len(SelectSeq(str, IsData))

\* C15: Tokenize succeeds on every plaintext with at least two alphanumeric
\* characters, "12", "123", "AB" and "A1" among them, and
\* Detokenize(Tokenize(p), p, "") then returns p.
C15_ShortInputs ==
    /\ (call.op = "Tokenize" /\ DataCount(call.in) >= 2) => call.err = ""
    /\ (RoundTripCase /\ DataCount(call.prev.in) >= 2)
          => (call.err = "" /\ call.out = call.prev.in)

(***************************************************************************)
(* The alphabet of Detokenize                                              *)
(***************************************************************************)
\* the alphabet picked from the data characters of str
PickedFrom(str) == DetermineAlphabet(SeparateFormatAndData(str).data)

\* what the call returns when it works with alphabet
DetokenizedWith(alphabet) ==
    OutErr(DetokenizeWith(call.f, call.in, SeparateFormatAndData(call.in), alphabet))

\* the output holds characters of alphabet wherever the input holds data
DataIn(alphabet) ==
    \A i \in 1..Len(call.in) :
       (IsASCII(call.in) /\ IsData(call.in[i])) => call.out[i] \in Range(alphabet)

Digits10 == <<48, 49, 50, 51, 52, 53, 54, 55, 56, 57>>

\* the bytes of "ABCDEFGHIJKLMNOPQRSTUVWXYZabcdefghijklmnopqrstuvwxyz"
Letters52 ==
    <<
      65, 66, 67, 68, 69, 70, 71, 72, 73, 74, 75, 76, 77, 78, 79, 80, 81,
      82, 83, 84, 85, 86, 87, 88, 89, 90, 97, 98, 99, 100, 101, 102, 103,
      104, 105, 106, 107, 108, 109, 110, 111, 112, 113, 114, 115, 116, 117,
      118, 119, 120, 121, 122
    >>

DetermineReturned == fcall.fn = "DetermineAlphabet" /\ fcall.returned

SomeDigit(str) == \E i \in 1..Len(str) : str[i] \in 48..57

SomeLetter(str) == \E i \in 1..Len(str) : str[i] \in (65..90) \cup (97..122)

Alnum(b) == b \in (48..57) \cup (65..90) \cup (97..122)

FalseCount(formatMask) == Cardinality({i \in 1..Len(formatMask) : ~formatMask[i]})

\* C18: for every byte string s, SeparateFormatAndData returns a mask with
\* one entry per byte of s, true exactly where the byte is not one of 0-9,
\* A-Z, a-z, and as data the alphanumeric bytes in order, so the mask has as
\* many false entries as data has bytes.
C18_ByteMask ==
    (fcall.fn = "SeparateFormatAndData" /\ fcall.returned) =>
        /\ Len(fcall.outMask) = Len(fcall.s)
        /\ \A i \in 1..Len(fcall.s) : fcall.outMask[i] <=> ~Alnum(fcall.s[i])
        /\ fcall.out = SelectSeq(fcall.s, Alnum)
        /\ FalseCount(fcall.outMask) = Len(fcall.out)

\* every position the mask marks as format is a position of original
OriginalCovers(formatMask, original) ==
    \A i \in 1..Len(formatMask) : formatMask[i] => i <= Len(original)

\* the number of mask-false positions up to and including position i
Rank(formatMask, i) == Cardinality({j \in 1..i : ~formatMask[j]})

C20_Total ==
    /\ ~fcall.panicked
    /\ (fcall.fn # "none" /\ ~fcall.returned) => ENABLED NextFormat

(***************************************************************************)
(* The round function                                                      *)
(***************************************************************************)
\* the header array P as REVIEW.md gives it: radix^3, radix^2, radix^1 and
\* radix^0 mod 256, then u, v, n and the tweak length t, then the tweak
PArray(radix, u, v, n, tweak) ==
    <<(radix * radix * radix) % 256, (radix * radix) % 256, radix % 256, 1,
      u % 256, v % 256, n % 256, Len(tweak) % 256>> \o tweak

\* sub occurs in seq as a block of consecutive bytes
Contains(seq, sub) ==
    \E k \in 0..(Len(seq) - Len(sub)) : SubSeq(seq, k + 1, k + Len(sub)) = sub

FeistelReturn == ucall.fn = "feistelFunction" /\ ucall.returned

\* C21: what the round function hands to the PRF includes the header array
\* P, which encodes the radix, the split lengths u and v, the total length
\* n, the tweak length and the tweak, in addition to the per-round array Q.
C21_HeaderInPRF ==
    (FeistelReturn /\ Len(ucall.prf) > 0) =>
        Contains(ucall.prf,
                 PArray(ucall.radix, ucall.u, ucall.v, ucall.n, ucall.f.tweak))

(***************************************************************************)
(* The Feistel rounds, step by step                                        *)
(***************************************************************************)
\* F(half, i, m) as the call of goroutine g asks for it
RoundF(g, half, m) ==
    feistelFunction(procs[g].f0, half, procs[g].i, m, Len(half),
                    procs[g].n, procs[g].r, procs[g].aesKey).C

PlusMod(X, C, radix) == [j \in 1..Len(X) |-> (X[j] + C[j]) % radix]

MinusMod(X, C, radix) == [j \in 1..Len(X) |-> (X[j] + radix - C[j]) % radix]

\* the numerals the call of goroutine g hands to the cipher
NumeralsOf(c) ==
    IF IsFacade(c.op)
    THEN StringToNumeric(SeparateFormatAndData(c.in).data, c.alphabet)
    ELSE c.in

\* the length the left half has when round i begins
LeftLen(n, i) == IF i % 2 = 0 THEN n \div 2 ELSE n - n \div 2

EntersLoop(g) == procs[g].pc = "idle" /\ procs'[g].pc = "loop"

RunsRound(g) == procs[g].pc = "loop" /\ procs'[g].pc = "loop" /\ procs'[g] # procs[g]

LeavesLoop(g) == procs[g].pc = "loop" /\ procs'[g].pc = "done"

\* C22: Encrypt splits X into A = X[0..u) and B = X[u..n), u = floor(n/2),
\* runs the rounds i = 0, ..., 9, each replacing (A, B) by (B, (A + F(B, i,
\* len(A))) mod radix), and returns A || B; Decrypt runs the rounds i = 9,
\* ..., 0, each replacing (A, B) by ((B - F(A, i, len(B))) mod radix, A); the
\* half lengths alternate between u and v, and after the tenth round A has
\* length u and B length v, so the result has n numerals.
C22_Rounds ==
    [][\A g \in Goroutines :
         /\ EntersLoop(g) =>
               /\ mem'[g].A = Take(NumeralsOf(procs'[g]), procs'[g].n \div 2)
               /\ mem'[g].B = Drop(NumeralsOf(procs'[g]), procs'[g].n \div 2)
               /\ procs'[g].i = IF IsForward(procs'[g].op) THEN 0 ELSE 9
         /\ (RunsRound(g) /\ IsForward(procs[g].op)) =>
               /\ procs[g].i \in 0..9 /\ procs'[g].i = procs[g].i + 1
               /\ Len(mem[g].A) = LeftLen(procs[g].n, procs[g].i)
               /\ mem'[g].A = mem[g].B
               /\ mem'[g].B = PlusMod(mem[g].A, RoundF(g, mem[g].B, Len(mem[g].A)),
                                      procs[g].r)
         /\ (RunsRound(g) /\ ~IsForward(procs[g].op)) =>
               /\ procs[g].i \in 0..9 /\ procs'[g].i = procs[g].i - 1
               /\ Len(mem[g].B) = LeftLen(procs[g].n, procs[g].i)
               /\ mem'[g].A = MinusMod(mem[g].B, RoundF(g, mem[g].A, Len(mem[g].B)),
                                       procs[g].r)
               /\ mem'[g].B = mem[g].A
         /\ LeavesLoop(g) =>
               /\ procs[g].i = IF IsForward(procs[g].op) THEN 10 ELSE -1
               /\ Len(mem[g].A) = procs[g].n \div 2
               /\ Len(mem[g].B) = procs[g].n - procs[g].n \div 2
               /\ ~IsFacade(procs[g].op) =>
                     (procs'[g].out = mem[g].A \o mem[g].B
                        /\ Len(procs'[g].out) = procs[g].n)
      ]_vars

\* the ten rounds of an Encrypt on an odd number of numerals are over, with
\* halves of the lengths the call began with
C22_Witness ==
    \E g \in Goroutines :
       /\ procs[g].pc = "loop" /\ procs[g].op = "Encrypt" /\ procs[g].i = 10
       /\ procs[g].n % 2 = 1
       /\ Len(mem[g].A) = procs[g].n \div 2
       /\ Len(mem[g].B) = procs[g].n - procs[g].n \div 2
       /\ mem[g].A \o mem[g].B # procs[g].in

(***************************************************************************)
(* The array Q                                                             *)
(***************************************************************************)
RECURSIVE Pow(_, _)
Pow(b, e) == IF e = 0 THEN 1 ELSE b * Pow(b, e - 1)

\* the number of bits of x: the least k with x < 2^k
BitsOf(x) == CHOOSE k \in 0..16 : x < Pow(2, k) /\ (k = 0 \/ x >= Pow(2, k - 1))

\* num_radix(X): the number X writes in base radix, most significant first
NumRadix(X, radix) ==
    LET Term(j) == X[j] * Pow(radix, Len(X) - j)
        Sum[j \in 0..Len(X)] == IF j = 0 THEN 0 ELSE Sum[j - 1] + Term(j)
    IN  Sum[Len(X)]

\* byte k of the w-byte big-endian form of x
ByteOf(x, w, k) == (x \div Pow(256, w - k)) % 256

\* ceil(len * bit_length(radix) / 8)
EncodedLen(len, radix) == (len * BitsOf(radix - 1) + 7) \div 8

QReturn == ucall.fn = "buildQArray" /\ ucall.returned

\* Q laid out for t tweak bytes and w bytes of B
QLayout(Q, i, tweak, B, radix, t, w) ==
    /\ Len(Q) > 0 /\ Len(Q) % 16 = 0
    /\ Len(Q) >= 4 + t + w /\ Len(Q) < 4 + t + w + 16
    /\ \A k \in 1..Len(Q) :
          Q[k] = IF k <= 4 THEN i
                 ELSE IF k <= 4 + t THEN tweak[k - 4]
                 ELSE IF k <= 4 + t + w THEN ByteOf(NumRadix(B, radix), w, k - 4 - t)
                 ELSE 0

\* C23: for round i, Q is four bytes equal to i, the tweak bytes, the
\* big-endian bytes of num_radix(B) left-padded to ceil(len(B) *
\* bit_length(radix) / 8) bytes, and zero bytes up to the next multiple of
\* 16; its length is a positive multiple of 16 fixed by len(B), the radix
\* and the tweak length.
C23_QLayout ==
    QReturn => QLayout(ucall.Q, ucall.roundNum, ucall.f.tweak, ucall.B, ucall.radix,
                       Len(ucall.f.tweak), EncodedLen(Len(ucall.B), ucall.radix))

\* Q of round 9 fills two blocks: a tweak, and a B whose bytes are padded
C23_Witness ==
    /\ QReturn
    /\ ucall.roundNum = 9 /\ Len(ucall.f.tweak) > 0
    /\ Len(ucall.B) >= 2 /\ ucall.B[1] = 0 /\ ucall.B[Len(ucall.B)] # 0
    /\ Len(ucall.Q) = 32

(***************************************************************************)
(* What the round function returns                                         *)
(***************************************************************************)
\* C24: feistelFunction returns exactly m numerals, m being the output
\* length asked for, each in [0, radix), for every B, every round and
\* every m >= 0, all of them zero when B is empty; the number d of bytes of
\* R it uses satisfies 8 <= d <= |R|; so the caller's pad-or-truncate
\* fallback for C is not taken.
C24_RoundOutput ==
    FeistelReturn =>
        /\ Len(ucall.C) = ucall.u
        /\ \A j \in 1..Len(ucall.C) : ucall.C[j] \in 0..(ucall.radix - 1)
        /\ Len(ucall.B) = 0 => \A j \in 1..Len(ucall.C) : ucall.C[j] = 0
        /\ Len(ucall.B) > 0 => (8 <= ucall.d /\ ucall.d <= ucall.lenR)
        /\ ~ucall.fitted

\* a long output was computed from all of R
C24_Witness ==
    /\ FeistelReturn
    /\ ucall.u > MaxM /\ Len(ucall.C) = ucall.u
    /\ ucall.d = ucall.lenR /\ ucall.d > 8
    /\ \E j \in 1..Len(ucall.C) : ucall.C[j] # 0

(***************************************************************************)
(* The AES key of the rounds                                               *)
(***************************************************************************)
\* the largest of 16, 24 and 32 that is at most len
StandardLen(len) == IF len >= 32 THEN 32 ELSE IF len >= 24 THEN 24 ELSE 16

\* the round of the call of goroutine g, made with aesKey
RoundWith(g, aesKey) ==
    Halves(IF IsForward(procs[g].op)
           THEN EncryptRound(procs[g].f0, mem[g].A, mem[g].B, procs[g].i,
                             procs[g].n, procs[g].r, aesKey)
           ELSE DecryptRound(procs[g].f0, mem[g].A, mem[g].B, procs[g].i,
                             procs[g].n, procs[g].r, aesKey))

\* C25: Encrypt and Decrypt use one and the same AES key in all ten rounds,
\* and that key has length 16, 24 or 32: the stored key itself when it has
\* one of those lengths, otherwise the stored key truncated to the next
\* smaller of them.
C25_OneKey ==
    [][\A g \in Goroutines :
         RunsRound(g) =>
            /\ Len(procs[g].aesKey) \in {16, 24, 32}
            /\ procs[g].aesKey =
                  SubSeq(procs[g].f0.key, 1, StandardLen(Len(procs[g].f0.key)))
            /\ procs'[g].aesKey = procs[g].aesKey
            /\ mem'[g] = RoundWith(g, SubSeq(procs[g].f0.key, 1,
                                             StandardLen(Len(procs[g].f0.key))))
      ]_vars

\* the last round of a call on a primitive whose key is cut to a shorter
\* standard length is about to run
C25_Witness ==
    \E g \in Goroutines :
       /\ procs[g].pc = "loop" /\ procs[g].op = "Encrypt" /\ procs[g].i = 9
       /\ Len(procs[g].f0.key) \notin {16, 24, 32}
       /\ Len(procs[g].aesKey) < Len(procs[g].f0.key)
       /\ Len(procs[g].aesKey) \in {24, 32}

(***************************************************************************)
(* Strings and numerals                                                    *)
(***************************************************************************)
\* the characters of alphabet are distinct
Distinct(alphabet) ==
    \A i, j \in 1..Len(alphabet) : alphabet[i] = alphabet[j] => i = j

\* the numeral of character c: its index in the alphabet, 0 when it has none
NumeralOf(c, alphabet) ==
    IF \E k \in 1..Len(alphabet) : alphabet[k] = c
    THEN (CHOOSE k \in 1..Len(alphabet) : alphabet[k] = c) - 1
    ELSE 0

\* the character of numeral x: alphabet[x], the first character when x is
\* out of range
CharOf(x, alphabet) == IF x < Len(alphabet) THEN alphabet[x + 1] ELSE alphabet[1]

\* C26: StringToNumeric returns one numeral per input byte, the index of the
\* character in the alphabet, and 0 for a character that is not in the
\* alphabet; NumericToString maps each numeral to its alphabet character and
\* every out-of-range numeral to the first alphabet character; hence
\* NumericToString(StringToNumeric(s, a), a, len(s)) = s for every ASCII
\* string s whose characters all occur in a.
C26_StringNumerals ==
    /\ (ucall.fn = "StringToNumeric" /\ ucall.returned /\ Distinct(ucall.alphabet)) =>
          /\ Len(ucall.out) = Len(ucall.str)
          /\ \A i \in 1..Len(ucall.str) :
                ucall.out[i] = NumeralOf(ucall.str[i], ucall.alphabet)
    /\ (ucall.fn = "NumericToString" /\ ucall.returned) =>
          /\ Len(ucall.out) = ucall.length
          /\ \A i \in 1..Len(ucall.out) :
                i <= Len(ucall.numerals) =>
                   ucall.out[i] = CharOf(ucall.numerals[i], ucall.alphabet)
    /\ (/\ ucall.fn = "NumericToString" /\ ucall.prev.fn = "StringToNumeric"
        /\ IsASCII(ucall.prev.str)
        /\ Range(ucall.prev.str) \subseteq Range(ucall.alphabet))
          => (ucall.returned /\ ucall.out = ucall.prev.str)

\* a string of two different characters went to numerals and back
C26_Witness ==
    /\ ucall.fn = "NumericToString" /\ ucall.returned
    /\ ucall.prev.fn = "StringToNumeric"
    /\ Len(ucall.prev.str) = MaxUnitLen
    /\ ucall.prev.str[1] # ucall.prev.str[2]
    /\ \E i \in 1..Len(ucall.numerals) : ucall.numerals[i] > 0
    /\ ucall.out = ucall.prev.str

(***************************************************************************)
(* Numerals and big integers                                               *)
(***************************************************************************)
\* the number that the big-endian bytes bs write
RECURSIVE IntOf(_)
IntOf(bs) ==
    IF Len(bs) = 0 THEN 0 ELSE IntOf(SubSeq(bs, 1, Len(bs) - 1)) * 256 + bs[Len(bs)]

\* C27: numradixDecode(numradixEncode(X, radix), radix, len(X)) = X for
\* every X over [0, radix) and radix >= 2; numradixEncode of the empty
\* sequence is 0; numradixDecode always writes exactly m numerals, the
\* value in base radix with zeros in the most significant positions;
\* bitLength(radix) is the number of bits of radix - 1, and 1 for
\* radix <= 1.
C27_NumRadix ==
    /\ (ucall.fn = "numradixEncode" /\ ucall.returned) =>
          /\ IntOf(ucall.val) = NumRadix(ucall.numerals, ucall.radix)
          /\ Len(ucall.numerals) = 0 => Len(ucall.val) = 0
    /\ (ucall.fn = "numradixDecode" /\ ucall.returned) =>
          /\ Len(ucall.out) = ucall.length
          /\ \A i \in 1..Len(ucall.out) : ucall.out[i] \in 0..(ucall.radix - 1)
          /\ NumRadix(ucall.out, ucall.radix)
                = IntOf(ucall.val) % Pow(ucall.radix, ucall.length)
    /\ (/\ ucall.fn = "numradixDecode" /\ ucall.returned
        /\ ucall.prev.fn = "numradixEncode")
          => ucall.out = ucall.prev.numerals
    /\ (ucall.fn = "bitLength" /\ ucall.returned) =>
          ucall.bits = IF ucall.radix <= 1 THEN 1 ELSE BitsOf(ucall.radix - 1)

\* three numerals, the first 0 and the last not, went to a big integer
\* and back
C27_Witness ==
    /\ ucall.fn = "numradixDecode" /\ ucall.returned
    /\ ucall.prev.fn = "numradixEncode"
    /\ Len(ucall.prev.numerals) = MaxUnitLen + 1
    /\ ucall.prev.numerals[1] = 0
    /\ ucall.prev.numerals[MaxUnitLen + 1] # 0
    /\ ucall.out = ucall.prev.numerals

(***************************************************************************)
(* What the round function reads of Q                                      *)
(***************************************************************************)
\* the bytes of the first ceil(d/16) blocks of Q
UsedBlocks(Q, d) == Take(Q, BlockSize * ((d + BlockSize - 1) \div BlockSize))

\* two calls of feistelFunction that differ in B only
TwoRounds ==
    /\ ucall.fn = "feistelFunction" /\ ucall.returned
    /\ ucall.prev.fn = "feistelFunction"

\* the tweak fills the first block and the output needs 16 bytes at most
FirstBlockOnly(f, m, radix) ==
    Len(f.tweak) >= 12 /\ (m = 0 \/ EncodedLen(m, radix) <= BlockSize)

\* two calls of Encrypt on plaintexts of one length
TwoEncrypts ==
    /\ ucall.fn = "Encrypt" /\ ucall.returned /\ ucall.err = ""
    /\ ucall.prev.fn = "Encrypt" /\ ucall.prev.err = ""

\* (to[j] - from[j]) mod radix
Offset(from, to, radix) ==
    [j \in 1..Len(from) |-> (to[j] - from[j] + radix) % radix]

\* the result depends on Q only through its first ceil(d/16) blocks
BlocksDecide ==
    (/\ TwoRounds /\ Len(ucall.prf) > 0 /\ Len(ucall.prev.prf) > 0
     /\ ucall.d = ucall.prev.d
     /\ UsedBlocks(ucall.prf, ucall.d) = UsedBlocks(ucall.prev.prf, ucall.d))
       => ucall.C = ucall.prev.C

\* Encrypt(X) differs from X by an offset that does not depend on X
SameOffset ==
    (/\ TwoEncrypts
     /\ FirstBlockOnly(ucall.f, Len(ucall.numerals) \div 2, ucall.radix)
     /\ FirstBlockOnly(ucall.f, Len(ucall.numerals) - Len(ucall.numerals) \div 2,
                       ucall.radix))
       => Offset(ucall.numerals, ucall.out, ucall.radix)
            = Offset(ucall.prev.numerals, ucall.prev.out, ucall.radix)

NoHintCase ==
    /\ call.op = "Detokenize"
    /\ call.prev.op = "Tokenize"
    /\ call.hint = <<>>
    /\ call.alph = <<>>
    /\ call.f = call.prev.f

\* the data characters of str are all digits, or all letters
OneClass(str) ==
    \/ \A i \in 1..Len(str) : IsData(str[i]) => IsDigit(str[i])
    \/ \A i \in 1..Len(str) : IsData(str[i]) => IsLetter(str[i])

\* C29: when the data characters of an ASCII plaintext p are all digits, or
\* all letters, and Tokenize(p) succeeds, Detokenize(Tokenize(p), "", "")
\* returns p, the data characters of the ciphertext selecting the alphabet
\* that those of p select.
C29_NoHintRoundTrip ==
    (NoHintCase /\ IsASCII(call.prev.in) /\ OneClass(call.prev.in))
       => /\ PickedFrom(call.in) = PickedFrom(call.prev.in)
          /\ call.err = ""
          /\ call.out = call.prev.in

\* a plaintext of letters and format characters came back from a
\* ciphertext that differs from it
C29_Witness ==
    /\ NoHintCase /\ IsASCII(call.prev.in)
    /\ HasFormat(call.prev.in)
    /\ \E i \in 1..Len(call.prev.in) : IsLetter(call.prev.in[i])
    /\ \A i \in 1..Len(call.prev.in) : ~IsDigit(call.prev.in[i])
    /\ call.in # call.prev.in
    /\ call.err = ""
    /\ call.out = call.prev.in

(***************************************************************************)
(* One numeral                                                             *)
(***************************************************************************)
\* goroutine g is in Encrypt or Decrypt on a single numeral
OneNumeral(g) == ~IsFacade(procs[g].op) /\ procs[g].n = 1

\* goroutine g leaves the call at its guards
Refused(g) == procs[g].pc = "idle" /\ procs'[g].pc = "done"

\* C30: a one-numeral input X = [x] with x < radix is accepted only when
\* radix >= 1000; Encrypt and Decrypt then return X unchanged and take no
\* modulo by zero: in every even round the round function is asked for zero
\* numerals, in every odd round it is given an empty B and returns zeros.
C30_OneNumeral ==
    [][\A g \in Goroutines :
         /\ (Refused(g) /\ ~IsFacade(procs'[g].op) /\ procs'[g].n = 1) =>
               (procs'[g].r < minDomainSize /\ procs'[g].err # "")
         /\ (EntersLoop(g) /\ ~IsFacade(procs'[g].op) /\ procs'[g].n = 1) =>
               (procs'[g].r >= minDomainSize /\ procs'[g].in[1] < procs'[g].r)
         /\ (RunsRound(g) /\ OneNumeral(g)) =>
               /\ procs[g].r # 0
               /\ Len(mem[g].A) + Len(mem[g].B) = 1
               /\ mem[g].A \o mem[g].B = procs[g].in
               /\ mem'[g].A \o mem'[g].B = procs[g].in
         /\ (RunsRound(g) /\ OneNumeral(g) /\ IsForward(procs[g].op)) =>
               IF procs[g].i % 2 = 0
               THEN Len(mem[g].A) = 0 /\ RoundF(g, mem[g].B, 0) = <<>>
               ELSE Len(mem[g].B) = 0 /\ RoundF(g, mem[g].B, 1) = <<0>>
         /\ (RunsRound(g) /\ OneNumeral(g) /\ ~IsForward(procs[g].op)) =>
               IF procs[g].i % 2 = 0
               THEN Len(mem[g].B) = 0 /\ RoundF(g, mem[g].A, 0) = <<>>
               ELSE Len(mem[g].A) = 0 /\ RoundF(g, mem[g].A, 1) = <<0>>
         /\ (LeavesLoop(g) /\ OneNumeral(g)) =>
               (procs'[g].err = "" /\ procs'[g].out = procs[g].in)
      ]_vars

\* one goroutine got its numeral back from Encrypt and the other from
\* Decrypt
C30_Witness ==
    \E g, o \in Goroutines :
       /\ procs[g].pc = "done" /\ procs[g].op = "Encrypt" /\ procs[g].n = 1
       /\ procs[g].err = "" /\ procs[g].out = procs[g].in /\ Len(procs[g].out) = 1
       /\ procs[o].pc = "done" /\ procs[o].op = "Decrypt" /\ procs[o].n = 1
       /\ procs[o].err = "" /\ procs[o].out = procs[o].in /\ Len(procs[o].out) = 1

====
